---- MODULE Spec2Model ----
(***************************************************************************)
(* Webhook verification and event decoding of the Wasender SDK.            *)
(*                                                                         *)
(*  - verifyWasenderWebhookSignature (src/src/webhook.ts and its copy in   *)
(*    src/src/channel.ts), applied to every header value and secret of a   *)
(*    bounded alphabet (SpecVerify);                                       *)
(*  - handleWebhook, the handler of the webhook test-suite: read the       *)
(*    signature header, verify, await req.json(), return the event;        *)
(*  - the webhook test server: startup check of the secret, the            *)
(*    POST /webhook route with its log write, verifySignature,             *)
(*    normalisePayload and the event dispatch.                             *)
(*                                                                         *)
(* JavaScript values are tagged records: [t |-> "undefined"],              *)
(* [t |-> "null"], [t |-> "string", v |-> s], [t |-> "number", v |-> n],   *)
(* [t |-> "boolean", v |-> b], [t |-> "array", v |-> <<...>>] and          *)
(* [t |-> "object", v |-> << <<key, value>>, ... >>] (members in insertion *)
(* order, as Object.keys lists them).  Signature and secret strings are    *)
(* sequences of characters so that case, blanks and prefixes are visible;  *)
(* a string inside a body is a one-element sequence holding its text.      *)
(***************************************************************************)
EXTENDS Integers, Sequences, FiniteSets, TLC

VARIABLES
  vSig,      \* SpecVerify: the requestSignature argument
  vSecret,   \* SpecVerify: the configuredSecret argument
  vOut,      \* SpecVerify: completion of webhook.ts' verifier, or NotRun
  vOutCh,    \* SpecVerify: completion of channel.ts' verifier, or NotRun
  vOutSrv,   \* SpecVerify: completion of the test server's verifySignature
  envSecret, \* test server: process.env.WASENDER_WEBHOOK_SECRET_KEY
  srv,       \* test server process: "boot", "listening" or "exited"
  pc,        \* the request in flight: "idle", "hw_await", "hw_done",
             \* "ev_await", "ev_done", "srv_done"
  req,       \* the request in flight: [headers, body], or NoReq
  hwOut,     \* handleWebhook / handleWebhookEvent: settlement of the
             \* promise, or NotRun
  norm,      \* test server: completion of normalisePayload, or NotRun
  res,       \* test server: the response sent, or NoRes
  trace,     \* effects of the request in flight, in the order they happen
  webhookSecret, \* Wasender instance: the webhookSecret option, or Undefined
  calls,     \* SpecConc: the handleWebhook calls, each [pc, req, out]
  sched,     \* SpecConc: the steps the event loop ran, in their order
  client,    \* SpecClient: the options of the Wasender instance, or NoClient
  fetched,   \* SpecClient: the requests handed to fetch, in their order
  apiOut,    \* SpecClient: settlement of the last API call, or NotRun
  inflight,  \* SpecClient: the last API call: [method, attempts, pc]
  errArgs,   \* SpecError: the arguments of new WasenderAPIError(...)
  err        \* SpecError: the error constructed, or NotRun

----------------------------------------------------------------------------
(* Bounds *)

\* longest signature / secret string enumerated for the verifier
MaxStrLen == 2

----------------------------------------------------------------------------
(* JavaScript values *)

Undefined == [t |-> "undefined"]
Null == [t |-> "null"]
Str(s) == [t |-> "string", v |-> s]
Num(n) == [t |-> "number", v |-> n]
Bool(b) == [t |-> "boolean", v |-> b]
Arr(s) == [t |-> "array", v |-> s]
Obj(members) == [t |-> "object", v |-> members]

\* characters of signatures and secrets: a letter in both cases and a blank
Alphabet == {"s", "S", " "}

StringsUpTo(n) == UNION {[1..k -> Alphabet] : k \in 0..n}

\* ToBoolean(x) is false: the operand of `!x` that makes it true.
\* Numbers do not occur as signatures; 0 is falsy all the same.
Falsy(x) ==
  \/ x.t \in {"undefined", "null"}
  \/ x.t = "string" /\ x.v = <<>>
  \/ x.t = "number" /\ x.v = 0
  \/ x.t = "boolean" /\ x.v = FALSE

\* a === b on primitives: same type and same value, no coercion
StrictEquals(a, b) == a.t = b.t /\ a = b

\* completion of a call: a returned value or a thrown exception
Return(x) == [kind |-> "return", value |-> x]
Throw(e) == [kind |-> "throw", error |-> e]
NotRun == [kind |-> "notrun"]

\* new Error(message)
Error(message) == [name |-> "Error", message |-> message]

\* `${statusCode || 'N/A'}` of the message of a WasenderAPIError
StatusText(statusCode) ==
  IF Falsy(statusCode) THEN "N/A" ELSE ToString(statusCode.v)

\* new WasenderAPIError(apiMessage, statusCode, errorDetails, retryAfter,
\* rateLimit)
WasenderAPIError(apiMessage, statusCode, errorDetails, retryAfter, rateLimit) ==
  [ name |-> "WasenderAPIError",
    message |-> Str(<<"Wasender API Error (Status ", StatusText(statusCode),
                      "): ">> \o apiMessage.v),
    apiMessage |-> apiMessage,
    statusCode |-> statusCode,
    errorDetails |-> errorDetails,
    retryAfter |-> retryAfter,
    rateLimit |-> rateLimit,
    success |-> FALSE ]

----------------------------------------------------------------------------
(* Signature verification *)

\* a verifier that takes the length of the header before testing it for
\* absence: it throws a TypeError on undefined and null
verifyDereferencesHeader(requestSignature, configuredSecret) ==
  IF requestSignature.t \in {"undefined", "null"}
  THEN Throw([name |-> "TypeError",
              message |-> Str(<<"Cannot read properties of undefined">>)])
  ELSE IF Falsy(requestSignature) \/ Falsy(configuredSecret)
       THEN Return(FALSE)
       ELSE Return(StrictEquals(requestSignature, configuredSecret))

\* a verifier without the fail-closed guard: plain equality
verifyNoGuard(requestSignature, configuredSecret) ==
  Return(StrictEquals(requestSignature, configuredSecret))

\* a verifier that compares case-insensitively ("s" and "S" fold together)
FoldCase(s) == [i \in DOMAIN s |-> IF s[i] = "S" THEN "s" ELSE s[i]]

verifyIgnoreCase(requestSignature, configuredSecret) ==
  IF Falsy(requestSignature) \/ Falsy(configuredSecret)
  THEN Return(FALSE)
  ELSE Return(FoldCase(requestSignature.v) = FoldCase(configuredSecret.v))

\* src/src/webhook.ts:32-42
verifyWasenderWebhookSignature(requestSignature, configuredSecret) ==
  IF Falsy(requestSignature) \/ Falsy(configuredSecret)
  THEN Return(FALSE)
  ELSE Return(StrictEquals(requestSignature, configuredSecret))

\* src/src/channel.ts:199-209
verifyWasenderWebhookSignatureChannel(requestSignature, configuredSecret) ==
  IF Falsy(requestSignature) \/ Falsy(configuredSecret)
  THEN Return(FALSE)
  ELSE Return(StrictEquals(requestSignature, configuredSecret))

----------------------------------------------------------------------------
(* Objects, arrays and property reads *)

\* a string of one piece of text
Text(a) == Str(<<a>>)

\* the member list of an object literal; a member whose value is undefined
\* is not written (JSON carries no undefined)
Member(k, x) == IF x = Undefined THEN <<>> ELSE << <<k, x>> >>

HasKey(o, k) == o.t = "object" /\ \E i \in DOMAIN o.v : o.v[i][1] = k

\* o.k on a value that is neither null nor undefined: the member's value, or
\* undefined when there is none (also on arrays, strings and numbers, which
\* carry none of the keys read here)
GetProp(o, k) ==
  IF HasKey(o, k)
  THEN o.v[CHOOSE i \in DOMAIN o.v : o.v[i][1] = k][2]
  ELSE Undefined

Nullish(x) == x.t \in {"undefined", "null"}

\* o?.k
OptGet(o, k) == IF Nullish(o) THEN Undefined ELSE GetProp(o, k)

\* Object.keys(o) of an object: the member names in insertion order
ObjectKeys(o) == [i \in DOMAIN o.v |-> o.v[i][1]]

IsArray(x) == x.t = "array"

\* typeof x === 'object' (true of null, objects and arrays)
TypeofObject(x) == x.t \in {"null", "object", "array"}

\* a || b
OrElse(a, b) == IF Falsy(a) THEN b ELSE a

----------------------------------------------------------------------------
(* Event taxonomy *)

WEBHOOK_SIGNATURE_HEADER == "x-webhook-signature"

ChatsUpsert == Text("chats.upsert")
ChatsUpdate == Text("chats.update")
ChatsDelete == Text("chats.delete")
GroupsUpsert == Text("groups.upsert")
GroupsUpdate == Text("groups.update")
GroupParticipantsUpdate == Text("group-participants.update")
ContactsUpsert == Text("contacts.upsert")
ContactsUpdate == Text("contacts.update")
MessagesUpsert == Text("messages.upsert")
MessagesUpdate == Text("messages.update")
MessagesDelete == Text("messages.delete")
MessagesReaction == Text("messages.reaction")
MessageReceiptUpdate == Text("message-receipt.update")
MessageSent == Text("message.sent")
SessionStatus == Text("session.status")
QrCodeUpdated == Text("qrcode.updated")

\* the enum WasenderWebhookEventType
WasenderWebhookEventType ==
  { ChatsUpsert, ChatsUpdate, ChatsDelete, GroupsUpsert, GroupsUpdate,
    GroupParticipantsUpdate, ContactsUpsert, ContactsUpdate, MessagesUpsert,
    MessagesUpdate, MessagesDelete, MessagesReaction, MessageReceiptUpdate,
    MessageSent, SessionStatus, QrCodeUpdated }

\* kinds whose data the event types declare as an array of entries
ArrayKinds ==
  { ChatsUpsert, ChatsUpdate, ChatsDelete, GroupsUpsert, GroupsUpdate,
    ContactsUpsert, ContactsUpdate, MessagesUpdate, MessagesReaction,
    MessageReceiptUpdate }

\* kinds whose data the event types declare as one object
ObjectKinds ==
  { GroupParticipantsUpdate, MessagesUpsert, MessagesDelete, MessageSent,
    SessionStatus, QrCodeUpdated }

----------------------------------------------------------------------------
(* Requests the sender can make *)

\* longest data array enumerated
MaxEntries == 2

SeqsUpTo(S, n) == UNION {[1..k -> S] : k \in 0..n}

\* MessageKey and MessagesUpsertData / MessageSentData
MessageKey(id) ==
  Obj(<< <<"id", Text(id)>>, <<"fromMe", Bool(FALSE)>>,
         <<"remoteJid", Text("+1555")>> >>)

MessageData(id, text) ==
  Obj(<< <<"key", MessageKey(id)>>,
         <<"message", Obj(<< <<"conversation", Text(text)>> >>)>> >>)

\* SessionStatusData
StatusData(status) == Obj(<< <<"status", Text(status)>> >>)

\* entries of the array-shaped kinds (ChatEntry, ContactEntry, ...)
Entries == { Obj(<< <<"id", Text("id1")>> >>),
             Obj(<< <<"id", Text("id2")>>, <<"name", Text("n")>> >>) }

\* chat ids of chats.delete
ChatIds == { Text("id1"), Text("id2") }

\* the data the event types of webhook.ts declare for a kind
KnownData(kind) ==
  IF kind = ChatsDelete
    THEN {Arr(s) : s \in SeqsUpTo(ChatIds, MaxEntries)}
  ELSE IF kind \in ArrayKinds
    THEN {Arr(s) : s \in SeqsUpTo(Entries, MaxEntries)}
  ELSE IF kind \in {MessagesUpsert, MessageSent}
    THEN {MessageData("m1", "hi"), MessageData("m2", "yo")}
  ELSE IF kind = MessagesDelete
    THEN {Obj(<< <<"keys", Arr(<<MessageKey("m1")>>)>> >>)}
  ELSE IF kind = SessionStatus
    THEN {StatusData("connected"), StatusData("disconnected")}
  ELSE IF kind = QrCodeUpdated
    THEN {Obj(<< <<"qr", Text("data:image/png")>> >>)}
  ELSE IF kind = GroupParticipantsUpdate
    THEN {Obj(<< <<"jid", Text("g1")>>, <<"action", Text("add")>> >>)}
  ELSE {}

\* data in the nesting the test server extracts from (data.messages,
\* data.chats, data.contacts), and data of no declared shape
OtherData ==
  { Undefined, Null, Arr(<<Null>>), Text("x"),
    Obj(<< <<"messages", MessageData("m1", "hi")>> >>),
    Obj(<< <<"chats", Arr(<<Obj(<< <<"id", Text("id1")>> >>)>>)>> >>),
    Obj(<< <<"contacts", Null>> >>) }

\* a discriminant outside the taxonomy
UnknownKind == Text("something")

Timestamps == {Undefined, Num(1633456789)}
SessionIds == {Undefined, Text("session-id-123")}

\* the field that carries the discriminant: `type` in webhook.ts'
\* BaseWebhookEvent, `event` in channel.ts' and in the test server
DiscriminantKeys == {"type", "event"}

\* an event object as the tests write it: discriminant, timestamp, data,
\* sessionId; absent optional fields are not members
EventBody(dk, kind, ts, data, sid) ==
  Obj(Member(dk, kind) \o Member("timestamp", ts) \o Member("data", data)
      \o Member("sessionId", sid))

\* events of one known kind, of the shape declared for it
KnownEventsOf(kind) ==
  { EventBody(dk, kind, ts, data, sid) :
      dk \in DiscriminantKeys, ts \in Timestamps, data \in KnownData(kind),
      sid \in SessionIds }

KnownEvents == UNION {KnownEventsOf(kind) : kind \in WasenderWebhookEventType}

\* events whose data has another shape than the declared one (the nesting
\* the test server extracts from, null, no data) or whose kind is unknown
OtherEvents ==
  { EventBody(dk, kind, ts, data, sid) :
      dk \in DiscriminantKeys,
      kind \in WasenderWebhookEventType \cup {UnknownKind},
      ts \in Timestamps, data \in OtherData, sid \in {Undefined} }

\* bodies without a discriminant: the empty object, and the structures the
\* fallback of the test server infers a kind from
LegacyBodies ==
  { Obj(<<>>),
    Obj(<< <<"messages", MessageData("m1", "hi")>> >>),
    Obj(<< <<"messages", Arr(<<Null>>)>> >>),
    Obj(<< <<"status", Text("connected")>> >>),
    Obj(<< <<"data", StatusData("connected")>> >>),
    Obj(<< <<"timestamp", Num(1633456789)>>, <<"chats", Null>> >>) }

\* bodies whose optional fields hold values of another type than the
\* declared one, with the discriminant and without it
UnvalidatedBodies ==
  { EventBody("type", SessionStatus, Text("soon"), StatusData("connected"),
              Num(7)),
    EventBody("event", SessionStatus, Text("soon"), StatusData("connected"),
              Num(7)),
    Obj(<< <<"status", Text("connected")>>,
           <<"sessionId", Text("session-id-123")>>,
           <<"timestamp", Text("soon")>> >>) }

\* every request body enumerated
Bodies == KnownEvents \cup OtherEvents \cup LegacyBodies \cup UnvalidatedBodies

----------------------------------------------------------------------------
(* handleWebhook: the handler of the webhook tests *)

\* const SECRET = 'shh!'
SECRET == Str(<<"s", "h", "h", "!">>)

NoReq == [headers |-> Undefined, body |-> Undefined]

\* makeReq(body, signature): the header is set only for a truthy signature
makeReq(body, signature) ==
  [ headers |-> IF Falsy(signature)
                THEN Obj(<<>>)
                ELSE Obj(<< <<WEBHOOK_SIGNATURE_HEADER, signature>> >>),
    body |-> body ]

\* MockRequest.json: `async () => body`
jsonOf(r) == r.body

\* a handler that reads the body before it looks at the signature
handleWebhookBodyFirst(r) ==
  LET signature == GetProp(r.headers, WEBHOOK_SIGNATURE_HEADER)
      v == verifyWasenderWebhookSignature(signature, SECRET)
  IN  IF v.kind = "throw"
      THEN [pc |-> "hw_done", out |-> v, trace |-> <<"json", "header", "verify">>]
      ELSE IF ~v.value
      THEN [pc |-> "hw_done",
            out |-> Throw(Error(Str(<<"Invalid signature">>))),
            trace |-> <<"json", "header", "verify">>]
      ELSE [pc |-> "hw_await", out |-> NotRun,
            trace |-> <<"json", "header", "verify">>]

\* a handler that calls req.json() a second time when it is about to suspend
handleWebhookRereadsBody(r) ==
  LET signature == GetProp(r.headers, WEBHOOK_SIGNATURE_HEADER)
      v == verifyWasenderWebhookSignature(signature, SECRET)
  IN  IF v.kind = "throw"
      THEN [pc |-> "hw_done", out |-> v, trace |-> <<"header", "verify">>]
      ELSE IF ~v.value
      THEN [pc |-> "hw_done",
            out |-> Throw(Error(Str(<<"Invalid signature">>))),
            trace |-> <<"header", "verify">>]
      ELSE [pc |-> "hw_await", out |-> NotRun,
            trace |-> <<"header", "verify", "json", "json">>]

\* handleWebhook up to its await: read the signature header, verify it
\* against SECRET, throw 'Invalid signature' or call req.json() and suspend
handleWebhookEnter(r) ==
  LET signature == GetProp(r.headers, WEBHOOK_SIGNATURE_HEADER)
      v == verifyWasenderWebhookSignature(signature, SECRET)
  IN  IF v.kind = "throw"
      THEN [pc |-> "hw_done", out |-> v, trace |-> <<"header", "verify">>]
      ELSE IF ~v.value
      THEN [pc |-> "hw_done",
            out |-> Throw(Error(Str(<<"Invalid signature">>))),
            trace |-> <<"header", "verify">>]
      ELSE [pc |-> "hw_await", out |-> NotRun,
            trace |-> <<"header", "verify", "json">>]

\* a handler that hands back the event without its session id
handleWebhookDropsSession(r) ==
  LET b == jsonOf(r)
  IN  Return(Obj(SelectSeq(b.v, LAMBDA m : m[1] # "sessionId")))

\* handleWebhook after its await: `return (await req.json())`
handleWebhookSettle(r) == Return(jsonOf(r))

----------------------------------------------------------------------------
(* Wasender.handleWebhookEvent(adapter): the entry point of the SDK.  Its  *)
(* code (main.ts) is not among the sources; it is modelled from its        *)
(* documentation (src/src/docs/webhook.md:35-62, 133-140) and from section *)
(* 4.4 of the specification.                                               *)

\* the raw body of a request that carries the JSON text of b
JSONStringify(b) == Str(<<"json", b>>)

\* a raw body that is the JSON text of b cut short: no valid JSON
Truncated(b) == Str(<<"cut", b>>)

\* JSON.parse(text): the value, or a SyntaxError
JSONParse(text) ==
  IF text.t = "string" /\ Len(text.v) = 2 /\ text.v[1] = "json"
  THEN Return(text.v[2])
  ELSE Throw([name |-> "SyntaxError",
              message |-> Str(<<"Unexpected end of JSON input">>)])

\* WebhookRequestAdapter over a request: getHeader finds the header or
\* returns undefined; getRawBody returns the raw body, and fails when the
\* framework cannot provide one (body Undefined)
getHeader(r, name) == GetProp(r.headers, name)

getRawBody(r) ==
  IF r.body = Undefined
  THEN Throw(Error(Str(<<"body unreadable">>)))
  ELSE Return(r.body)

\* the three failures of section 4.4, as WasenderAPIError
WebhookNotConfigured ==
  WasenderAPIError(Str(<<"webhook not configured">>), Undefined, Undefined,
                   Undefined, Undefined)

Unauthorized ==
  WasenderAPIError(Str(<<"unauthorized">>), Num(401), Undefined, Undefined,
                   Undefined)

BadRequest ==
  WasenderAPIError(Str(<<"bad request">>), Num(400), Undefined, Undefined,
                   Undefined)

\* handleWebhookEvent up to its await: the secret is tested before anything
\* is read; then the header is read and verified; then getRawBody is called
handleWebhookEventEnter(r, secret) ==
  IF Falsy(secret)
  THEN [pc |-> "ev_done", out |-> Throw(WebhookNotConfigured),
        trace |-> <<>>]
  ELSE
    LET signature == getHeader(r, WEBHOOK_SIGNATURE_HEADER)
        v == verifyWasenderWebhookSignature(signature, secret)
    IN  IF v.kind = "throw" \/ ~v.value
        THEN [pc |-> "ev_done", out |-> Throw(Unauthorized),
              trace |-> <<"header", "verify">>]
        ELSE [pc |-> "ev_await", out |-> NotRun,
              trace |-> <<"header", "verify", "body">>]

\* handleWebhookEvent after its await: the raw body is parsed
handleWebhookEventSettle(r) ==
  LET raw == getRawBody(r)
  IN  IF raw.kind = "throw"
      THEN Throw(BadRequest)
      ELSE LET parsed == JSONParse(raw.value)
           IN  IF parsed.kind = "throw"
               THEN Throw(BadRequest)
               ELSE Return(parsed.value)

----------------------------------------------------------------------------
(* The webhook test server *)

\* an HTTP request as express hands it to the route: the signature header
\* is present whenever the sender wrote it, the empty value included
HttpRequest(body, signature) ==
  [ headers |-> Obj(Member(WEBHOOK_SIGNATURE_HEADER, signature)),
    body |-> body ]

\* a toArray that wraps whatever it is given
toArrayAlwaysWraps(x) == Arr(<<x>>)

\* a toArray that tests the length for truth: the empty array is wrapped
toArrayWrapsEmpty(x) ==
  IF x = Undefined \/ x = Null THEN Arr(<<>>)
  ELSE IF IsArray(x) /\ Len(x.v) > 0 THEN x
  ELSE Arr(<<x>>)

\* a toArray that tests for undefined alone: null is wrapped
toArrayWrapsNull(x) ==
  IF x = Undefined THEN Arr(<<>>)
  ELSE IF IsArray(x) THEN x
  ELSE Arr(<<x>>)

\* toArray(x): [] for undefined and null, x for an array, [x] otherwise
toArray(x) ==
  IF x = Undefined \/ x = Null THEN Arr(<<>>)
  ELSE IF IsArray(x) THEN x
  ELSE Arr(<<x>>)

\* a verifySignature that is content with any signature that is present
verifySignaturePresenceOnly(r, secretEnv) ==
  LET signature == GetProp(r.headers, WEBHOOK_SIGNATURE_HEADER)
  IN  Return(~Falsy(signature) /\ ~Falsy(secretEnv))

\* verifySignature(req), with the secret read from the environment
verifySignature(r, secretEnv) ==
  LET signature == GetProp(r.headers, WEBHOOK_SIGNATURE_HEADER)
  IN  IF Falsy(signature) \/ Falsy(secretEnv)
      THEN Return(FALSE)
      ELSE Return(StrictEquals(signature, secretEnv))

\* a result whose timestamp is defaulted when the body carries none
NormalisedStampsMissing(type, data, sessionId, timestamp) ==
  [type |-> type, data |-> data, sessionId |-> sessionId,
   timestamp |-> IF timestamp = Undefined THEN Num(0) ELSE timestamp]

\* the object normalisePayload returns
Normalised(type, data, sessionId, timestamp) ==
  [type |-> type, data |-> data, sessionId |-> sessionId,
   timestamp |-> timestamp]

\* normalisePayload, standard structure: the switch that picks dataToProcess
DataToProcess(eventType, rawEventSpecificData) ==
  IF eventType \in {MessagesUpsert, MessagesUpdate, MessagesDelete}
    THEN GetProp(rawEventSpecificData, "messages")
  ELSE IF eventType = MessagesReaction
    THEN GetProp(rawEventSpecificData, "message")
  ELSE IF eventType \in {ChatsUpsert, ChatsUpdate}
    THEN OrElse(GetProp(rawEventSpecificData, "chats"),
                GetProp(rawEventSpecificData, "chat"))
  ELSE IF eventType \in {ContactsUpsert, ContactsUpdate}
    THEN GetProp(rawEventSpecificData, "contacts")
  ELSE rawEventSpecificData

\* normalisePayload, legacy fallback: type and data inferred from the first
\* key of the body
FallbackInference(raw) ==
  LET rootKey == ObjectKeys(raw)[1]
      unknown == [type |-> Str(<<"unknown:", rootKey>>),
                  data |-> GetProp(raw, rootKey)]
      messages == GetProp(raw, "messages")
  IN  IF rootKey = "messages" THEN
        IF ~Falsy(OptGet(OptGet(messages, "message"), "reactionMessage"))
          THEN [type |-> MessagesUpsert, data |-> messages]
        ELSE IF IsArray(messages)
          THEN [type |-> MessagesUpdate, data |-> messages]
        ELSE IF /\ ~Falsy(OptGet(messages, "keys"))
                /\ IsArray(GetProp(messages, "keys"))
          THEN [type |-> MessagesDelete, data |-> messages]
        ELSE IF ~Falsy(messages)
          THEN [type |-> MessagesUpsert, data |-> messages]
        ELSE unknown
      ELSE IF /\ rootKey = "message"
              /\ ~Falsy(OptGet(GetProp(raw, "message"), "reaction"))
        THEN [type |-> MessagesReaction, data |-> GetProp(raw, "message")]
      ELSE IF rootKey = "contacts"
        THEN [type |-> IF IsArray(GetProp(raw, "contacts"))
                       THEN ContactsUpsert ELSE ContactsUpdate,
              data |-> GetProp(raw, "contacts")]
      ELSE IF rootKey = "chats"
        THEN [type |-> ChatsUpsert, data |-> GetProp(raw, "chats")]
      ELSE IF rootKey = "chat"
        THEN [type |-> ChatsUpdate, data |-> GetProp(raw, "chat")]
      ELSE IF rootKey = "qr" /\ GetProp(raw, "qr").t = "string"
        THEN [type |-> QrCodeUpdated, data |-> raw]
      ELSE IF rootKey = "status" /\ GetProp(raw, "status").t = "string"
        THEN [type |-> SessionStatus, data |-> raw]
      ELSE unknown

\* normalisePayload(raw) for a body express.json() produced (an object)
normalisePayload(raw) ==
  LET eventType == OptGet(raw, "event")
      rawEventSpecificData == OptGet(raw, "data")
      sessionId == OptGet(raw, "sessionId")
      eventTimestamp == OptGet(raw, "timestamp")
  IN  IF /\ ~Falsy(eventType)
         /\ TypeofObject(rawEventSpecificData)
         /\ rawEventSpecificData # Null
      THEN Return(Normalised(eventType,
                    toArray(DataToProcess(eventType, rawEventSpecificData)),
                    sessionId, eventTimestamp))
      ELSE IF Len(ObjectKeys(raw)) = 0
      THEN Return(Normalised(Str(<<"unknown:", "empty">>), Arr(<<>>), sessionId,
                             eventTimestamp))
      ELSE LET f == FallbackInference(raw)
           IN  Return(Normalised(f.type, toArray(f.data), sessionId,
                                 eventTimestamp))

\* the switch of the route over the normalised type: TRUE when a property
\* of a null entry is read without `?.`, which throws a TypeError
DispatchThrows(type, entries) ==
  LET first == IF Len(entries.v) > 0 THEN entries.v[1] ELSE Undefined
      someNullish == \E i \in DOMAIN entries.v : Nullish(entries.v[i])
      keys == OptGet(first, "keys")
  IN  IF type \in { MessagesUpsert, MessagesUpdate, ChatsUpsert, ChatsUpdate,
                    ContactsUpsert, ContactsUpdate, MessagesReaction }
        THEN someNullish
      ELSE IF type \in { SessionStatus, QrCodeUpdated, MessageSent,
                         GroupParticipantsUpdate }
        THEN Len(entries.v) > 0 /\ Nullish(first)
      ELSE IF type = MessagesDelete
        THEN /\ Len(entries.v) > 0
             /\ ~Falsy(first)
             /\ IsArray(keys)
             /\ \E i \in DOMAIN keys.v : Nullish(keys.v[i])
      ELSE FALSE

NoRes == [status |-> 0, json |-> Undefined]

Response(status, json) == [status |-> status, json |-> json]

\* the part of a route after the signature verified, for the routes that
\* order the log write and the checks otherwise (effects so far: done)
routeVerified(r, done) ==
  LET n == normalisePayload(r.body)
  IN  IF Falsy(n.value.type)
      THEN [ res |-> Response(200, Obj(<< <<"received", Bool(TRUE)>> >>)),
             norm |-> n,
             trace |-> done \o <<"normalise", "respond">> ]
      ELSE [ res |-> IF DispatchThrows(n.value.type, n.value.data)
                     THEN Response(500, Undefined)
                     ELSE Response(200,
                            Obj(<< <<"received", Bool(TRUE)>>,
                                   <<"processedEventType", n.value.type>> >>)),
             norm |-> n,
             trace |-> done \o <<"normalise", "dispatch", "respond">> ]

\* a route that normalises the body before it checks the signature
postWebhookNormalisesFirst(r, secretEnv, logOk) ==
  LET logged == <<IF logOk THEN "log" ELSE "logfail">>
      v == verifySignature(r, secretEnv)
      n == routeVerified(r, logged)
  IN  IF ~v.value
      THEN [ res |-> Response(401,
                       Obj(<< <<"error", Text("Invalid signature")>> >>)),
             norm |-> n.norm,
             trace |-> logged \o <<"normalise", "verify", "respond">> ]
      ELSE routeVerified(r, logged \o <<"verify">>)

\* a route that logs the body only once the signature verified
postWebhookLogsAfterVerify(r, secretEnv, logOk) ==
  LET logged == <<IF logOk THEN "log" ELSE "logfail">>
      v == verifySignature(r, secretEnv)
  IN  IF ~v.value
      THEN [ res |-> Response(401,
                       Obj(<< <<"error", Text("Invalid signature")>> >>)),
             norm |-> NotRun,
             trace |-> <<"verify", "respond">> ]
      ELSE routeVerified(r, <<"verify">> \o logged)

\* app.post('/webhook'): the route from the log write to the response.
\* logOk: whether fs.writeFileSync succeeded (its failure is caught).
\* An uncaught exception is answered by express with status 500.
postWebhook(r, secretEnv, logOk) ==
  LET logged == <<IF logOk THEN "log" ELSE "logfail">>
      v == verifySignature(r, secretEnv)
  IN  IF ~v.value
      THEN [ res |-> Response(401,
                       Obj(<< <<"error", Text("Invalid signature")>> >>)),
             norm |-> NotRun,
             trace |-> logged \o <<"verify", "respond">> ]
      ELSE
        LET n == normalisePayload(r.body)
        IN  IF Falsy(n.value.type)
            THEN [ res |-> Response(200, Obj(<< <<"received", Bool(TRUE)>> >>)),
                   norm |-> n,
                   trace |-> logged \o <<"verify", "normalise", "respond">> ]
            ELSE IF DispatchThrows(n.value.type, n.value.data)
            THEN [ res |-> Response(500, Undefined),
                   norm |-> n,
                   trace |-> logged
                             \o <<"verify", "normalise", "dispatch", "respond">> ]
            ELSE [ res |-> Response(200,
                             Obj(<< <<"received", Bool(TRUE)>>,
                                    <<"processedEventType", n.value.type>> >>)),
                   norm |-> n,
                   trace |-> logged
                             \o <<"verify", "normalise", "dispatch", "respond">> ]

----------------------------------------------------------------------------
(* Spec: requests served one after the other by handleWebhook and by the   *)
(* test server                                                             *)

\* values of the x-webhook-signature header a sender writes; Undefined is
\* a request without the header
Signatures ==
  { Undefined, Str(<<>>), SECRET, Str(<<"S", "h", "h", "!">>),
    Str(<<"k">>) }

\* values of WASENDER_WEBHOOK_SECRET_KEY; Undefined is the unset variable
EnvSecrets == { Undefined, SECRET, Str(<<"k">>) }

\* values of the webhookSecret option of the Wasender instance; Undefined
\* is an instance created without it
WebhookSecrets == { Undefined, Str(<<>>), SECRET }

\* bodies sent to handleWebhookEvent
SdkBodies ==
  LegacyBodies \cup UnvalidatedBodies \cup KnownEventsOf(SessionStatus)
  \cup KnownEventsOf(ChatsDelete)

\* what getRawBody has to offer: nothing (Undefined), the JSON text of a
\* body, or a text that is no JSON
RawBodies ==
  {Undefined} \cup {JSONStringify(b) : b \in SdkBodies}
  \cup {Truncated(b) : b \in LegacyBodies}

\* RetryConfig when none is given: enabled false, maxRetries 0
DefaultRetry == [enabled |-> FALSE, maxRetries |-> 0]

NoClient ==
  [ apiKey |-> Undefined, personalAccessToken |-> Undefined,
    retryOptions |-> DefaultRetry ]

NoApiCall == [method |-> "", attempts |-> 0, pc |-> "idle"]

vvars == <<vSig, vSecret, vOut, vOutCh, vOutSrv>>
hvars == <<envSecret, srv, pc, req, hwOut, norm, res, trace, webhookSecret>>
cvars == <<calls, sched>>
avars == <<client, fetched, apiOut, inflight>>
evars == <<errArgs, err>>
vars == <<vSig, vSecret, vOut, vOutCh, vOutSrv, envSecret, srv, pc, req, hwOut, norm,
          res, trace, webhookSecret, calls, sched, client, fetched, apiOut,
          inflight, errArgs, err>>

\* no concurrent call was made
ConcIdle ==
  /\ calls = <<>>
  /\ sched = <<>>

\* no client was created
ClientIdle ==
  /\ client = NoClient
  /\ fetched = <<>>
  /\ apiOut = NotRun
  /\ inflight = NoApiCall

\* no WasenderAPIError is being constructed
NoErrArgs ==
  [ apiMessage |-> Undefined, statusCode |-> Undefined,
    errorDetails |-> Undefined, retryAfter |-> Undefined,
    rateLimit |-> Undefined ]

ErrorIdle ==
  /\ errArgs = NoErrArgs
  /\ err = NotRun

VerifyIdle ==
  /\ vSig = Undefined
  /\ vSecret = Undefined
  /\ vOut = NotRun
  /\ vOutCh = NotRun
  /\ vOutSrv = NotRun

Init ==
  /\ VerifyIdle
  /\ ConcIdle
  /\ ClientIdle
  /\ ErrorIdle
  /\ webhookSecret = Undefined
  /\ envSecret \in EnvSecrets
  /\ srv = "boot"
  /\ pc = "idle"
  /\ req = NoReq
  /\ hwOut = NotRun
  /\ norm = NotRun
  /\ res = NoRes
  /\ trace = <<>>

\* a startup that goes on to listen without looking at the secret
ServerBootListensAnyway ==
  /\ srv = "boot"
  /\ srv' = "listening"
  /\ UNCHANGED <<envSecret, pc, req, hwOut, norm, res, trace, webhookSecret>>
  /\ UNCHANGED <<vvars, cvars, avars, evars>>

\* startup of the test server: exit(1) when the secret is not set
ServerBoot ==
  /\ srv = "boot"
  /\ srv' = IF Falsy(envSecret) THEN "exited" ELSE "listening"
  /\ UNCHANGED <<envSecret, pc, req, hwOut, norm, res, trace, webhookSecret>>
  /\ UNCHANGED <<vvars, cvars, avars, evars>>

\* a test calls handleWebhook(makeReq(body, signature)); the handler runs
\* to its throw or to its await
HandleWebhookCall ==
  /\ pc = "idle"
  /\ \E body \in Bodies, signature \in Signatures :
       LET r == makeReq(body, signature)
           h == handleWebhookEnter(r)
       IN  /\ req' = r
           /\ pc' = h.pc
           /\ hwOut' = h.out
           /\ trace' = h.trace
  /\ UNCHANGED <<envSecret, srv, norm, res, webhookSecret>>
  /\ UNCHANGED <<vvars, cvars, avars, evars>>

\* the promise of req.json() resolves and handleWebhook returns
HandleWebhookResume ==
  /\ pc = "hw_await"
  /\ hwOut' = handleWebhookSettle(req)
  /\ pc' = "hw_done"
  /\ UNCHANGED <<envSecret, srv, req, norm, res, trace, webhookSecret>>
  /\ UNCHANGED <<vvars, cvars, avars, evars>>

\* a host calls wasender.handleWebhookEvent(adapter) on an instance created
\* with the option webhookSecret = secret; the call runs to its throw or to
\* its await
HandleWebhookEventCall ==
  /\ pc = "idle"
  /\ \E body \in RawBodies, signature \in Signatures,
        secret \in WebhookSecrets :
       LET r == HttpRequest(body, signature)
           h == handleWebhookEventEnter(r, secret)
       IN  /\ req' = r
           /\ webhookSecret' = secret
           /\ pc' = h.pc
           /\ hwOut' = h.out
           /\ trace' = h.trace
  /\ UNCHANGED <<envSecret, srv, norm, res>>
  /\ UNCHANGED <<vvars, cvars, avars, evars>>

\* the promise of getRawBody() settles and handleWebhookEvent settles
HandleWebhookEventResume ==
  /\ pc = "ev_await"
  /\ hwOut' = handleWebhookEventSettle(req)
  /\ pc' = "ev_done"
  /\ UNCHANGED <<envSecret, srv, req, norm, res, trace, webhookSecret>>
  /\ UNCHANGED <<vvars, cvars, avars, evars>>

\* the test server receives POST /webhook and runs the route to its response
PostWebhook ==
  /\ pc = "idle"
  /\ srv = "listening"
  /\ \E body \in Bodies, signature \in Signatures, logOk \in BOOLEAN :
       LET r == HttpRequest(body, signature)
           p == postWebhook(r, envSecret, logOk)
       IN  /\ req' = r
           /\ res' = p.res
           /\ norm' = p.norm
           /\ trace' = p.trace
  /\ pc' = "srv_done"
  /\ UNCHANGED <<envSecret, srv, hwOut, webhookSecret>>
  /\ UNCHANGED <<vvars, cvars, avars, evars>>

\* the request is over; the next one starts from nothing
Finish ==
  /\ pc \in {"hw_done", "ev_done", "srv_done"}
  /\ pc' = "idle"
  /\ req' = NoReq
  /\ hwOut' = NotRun
  /\ norm' = NotRun
  /\ res' = NoRes
  /\ trace' = <<>>
  /\ webhookSecret' = Undefined
  /\ UNCHANGED <<envSecret, srv>>
  /\ UNCHANGED <<vvars, cvars, avars, evars>>

Next == ServerBoot \/ HandleWebhookCall \/ HandleWebhookResume
        \/ HandleWebhookEventCall \/ HandleWebhookEventResume \/ PostWebhook
        \/ Finish

Spec == Init /\ [][Next]_vars

----------------------------------------------------------------------------
(* SpecVerify: the verifier applied to every pair of arguments *)

\* requestSignature: string | undefined | null
SigValues == {Undefined, Null} \cup {Str(s) : s \in StringsUpTo(MaxStrLen)}

\* configuredSecret: declared string; an unset option arrives as undefined
SecretValues == {Undefined, Null} \cup {Str(s) : s \in StringsUpTo(MaxStrLen)}

HandlerIdle ==
  /\ envSecret = Undefined
  /\ srv = "boot"
  /\ pc = "idle"
  /\ req = NoReq
  /\ hwOut = NotRun
  /\ norm = NotRun
  /\ res = NoRes
  /\ trace = <<>>
  /\ webhookSecret = Undefined

InitVerify ==
  /\ vSig \in SigValues
  /\ vSecret \in SecretValues
  /\ vOut = NotRun
  /\ vOutCh = NotRun
  /\ vOutSrv = NotRun
  /\ HandlerIdle
  /\ ConcIdle
  /\ ClientIdle
  /\ ErrorIdle

\* one call of the verifier of webhook.ts
VerifyCall ==
  /\ vOut = NotRun
  /\ vOut' = verifyWasenderWebhookSignature(vSig, vSecret)
  /\ UNCHANGED <<vSig, vSecret, vOutCh, vOutSrv>>
  /\ UNCHANGED <<hvars, cvars, avars, evars>>

\* one call of the verifier of channel.ts
VerifyCallChannel ==
  /\ vOutCh = NotRun
  /\ vOutCh' = verifyWasenderWebhookSignatureChannel(vSig, vSecret)
  /\ UNCHANGED <<vSig, vSecret, vOut, vOutSrv>>
  /\ UNCHANGED <<hvars, cvars, avars, evars>>

\* one call of verifySignature of the test server, on a request whose
\* signature header is vSig and with vSecret in the environment
VerifyCallServer ==
  /\ vOutSrv = NotRun
  /\ vOutSrv' = verifySignature(HttpRequest(Undefined, vSig), vSecret)
  /\ UNCHANGED <<vSig, vSecret, vOut, vOutCh>>
  /\ UNCHANGED <<hvars, cvars, avars, evars>>

NextVerify == VerifyCall \/ VerifyCallChannel \/ VerifyCallServer

SpecVerify == InitVerify /\ [][NextVerify]_vars

----------------------------------------------------------------------------
(* SpecConc: calls of handleWebhook that run concurrently.  A call runs    *)
(* from its start to its await in one step of the event loop and from the  *)
(* settlement of req.json() to its return in another; steps of different   *)
(* calls interleave.                                                       *)

\* number of concurrent calls
MaxCalls == 2

CallIds == 1..MaxCalls

ConcBodies ==
  { EventBody("type", SessionStatus, Undefined, StatusData("connected"),
              Undefined),
    EventBody("type", ChatsDelete, Num(1633456789),
              Arr(<<Text("id1"), Text("id2")>>), Text("session-id-123")),
    EventBody("event", UnknownKind, Undefined, Null, Undefined) }

ConcSignatures == { Undefined, SECRET, Str(<<"k">>) }

NoCall == [pc |-> "idle", req |-> NoReq, out |-> NotRun]

InitConc ==
  /\ VerifyIdle
  /\ HandlerIdle
  /\ ClientIdle
  /\ ErrorIdle
  /\ calls = [i \in CallIds |-> NoCall]
  /\ sched = <<>>

\* a handler that keeps the request in a variable of the module, which the
\* call started last overwrites
RequestOfLastCall(cs, sc, i) ==
  LET last == CHOOSE j \in DOMAIN sc :
                /\ sc[j][1] = "call"
                /\ \A k \in DOMAIN sc : sc[k][1] = "call" => k <= j
  IN  cs[sc[last][2]].req

\* the request call i resumes with: its own parameter `req`
RequestOf(cs, sc, i) == cs[i].req

\* call i starts and runs to its throw or to its await
ConcCall(i) ==
  /\ calls[i].pc = "idle"
  /\ \E body \in ConcBodies, signature \in ConcSignatures :
       LET r == makeReq(body, signature)
           h == handleWebhookEnter(r)
       IN  calls' = [calls EXCEPT ![i] = [pc |-> h.pc, req |-> r,
                                          out |-> h.out]]
  /\ sched' = Append(sched, <<"call", i>>)
  /\ UNCHANGED <<vvars, hvars, avars, evars>>

\* the promise of req.json() of call i resolves and the call returns
ConcResume(i) ==
  /\ calls[i].pc = "hw_await"
  /\ calls' = [calls EXCEPT ![i] =
                 [pc |-> "hw_done", req |-> calls[i].req,
                  out |-> handleWebhookSettle(RequestOf(calls, sched, i))]]
  /\ sched' = Append(sched, <<"settle", i>>)
  /\ UNCHANGED <<vvars, hvars, avars, evars>>

NextConc == \E i \in CallIds : ConcCall(i) \/ ConcResume(i)

SpecConc == InitConc /\ [][NextConc]_vars

----------------------------------------------------------------------------
(* SpecClient: the REST client of the SDK (class Wasender, main.ts).  Its  *)
(* code is not among the sources; which token goes with which endpoint is  *)
(* modelled from the tests of the session endpoints and of send-message,   *)
(* the retry on HTTP 429 from the README (Retry Configuration) and from    *)
(* sections 5 and 6 of the specification.                                  *)

\* number of API calls on one client that reach fetch
MaxApiCalls == 2

\* largest maxRetries of a RetryConfig
MaxRetries == 2

\* endpoints of the account, authorised by the personal access token
AccountScoped == {"getAllWhatsAppSessions", "createWhatsAppSession"}

\* endpoints of a session, authorised by the API key
SessionScoped == {"getSessionStatus", "sendText"}

ApiKeys == { Str(<<"apiKey123">>), Str(<<"API_KEY">>) }

PersonalTokens == { Undefined, Str(<<"personalToken123">>) }

\* RetryConfig: { enabled, maxRetries }
RetryConfigs == [enabled : BOOLEAN, maxRetries : 0..MaxRetries]

\* createWasender(apiKey, undefined, fetch, retryOptions, undefined,
\* personalAccessToken)
createWasender(apiKey, retryOptions, personalAccessToken) ==
  [ apiKey |-> apiKey, personalAccessToken |-> personalAccessToken,
    retryOptions |-> retryOptions ]

\* the default base URL
BaseUrl == "https://www.wasenderapi.com/api"

\* the path of an endpoint under the base URL
Path(method) ==
  IF method = "sendText" THEN "/send-message"
  ELSE IF method = "getSessionStatus" THEN "/status"
  ELSE "/whatsapp-sessions"

\* the value of the Authorization header for a token
Bearer(token) == Str(<<"Bearer ">> \o token.v)

\* a client that authorises every endpoint with the API key
TokenAlwaysApiKey(c, method) == c.apiKey

\* a client that falls back to the API key when it has no personal token
TokenFallsBackToApiKey(c, method) ==
  IF method \in AccountScoped
  THEN OrElse(c.personalAccessToken, c.apiKey)
  ELSE c.apiKey

\* the token that authorises a call of `method`
TokenFor(c, method) ==
  IF method \in AccountScoped THEN c.personalAccessToken ELSE c.apiKey

\* a client that retries maxRetries times whether or not retries are enabled
RetriesAllowedIgnoresEnabled(c) == c.retryOptions.maxRetries

\* the number of times a call may be sent again
RetriesAllowed(c) ==
  IF c.retryOptions.enabled THEN c.retryOptions.maxRetries ELSE 0

\* the request handed to fetch for API call number `call`; status is the
\* HTTP status of its response, 0 while there is none
FetchRequest(c, method, call) ==
  [ call |-> call,
    method |-> method,
    url |-> Str(<<BaseUrl, Path(method)>>),
    headers |-> Obj(<< <<"Authorization", Bearer(TokenFor(c, method))>>,
                       <<"Content-Type", Str(<<"application/json">>)>> >>),
    status |-> 0 ]

\* the number of API calls in the log of fetch
CallsMade(log) == IF log = <<>> THEN 0 ELSE log[Len(log)].call

\* statuses the API answers with
Statuses == {200, 429, 500}

\* an API call up to its first fetch: without the token of the endpoint's
\* scope it fails with a WasenderAPIError and nothing is fetched
apiCallEnter(c, method, log) ==
  IF Falsy(TokenFor(c, method))
  THEN [ inflight |-> [method |-> method, attempts |-> 0, pc |-> "done"],
         out |-> Throw(WasenderAPIError(Str(<<"token missing">>), Undefined,
                                        Undefined, Undefined, Undefined)),
         fetched |-> log ]
  ELSE [ inflight |-> [method |-> method, attempts |-> 1, pc |-> "wait"],
         out |-> NotRun,
         fetched |-> Append(log, FetchRequest(c, method, CallsMade(log) + 1)) ]

\* a client that sends the request again after every failure
apiCallRetriesEveryFailure(c, fl, log, status) ==
  LET answered == [log EXCEPT ![Len(log)].status = status]
  IN  IF status = 200
      THEN [ inflight |-> [fl EXCEPT !.pc = "done"],
             out |-> Return(Obj(<< <<"success", Bool(TRUE)>> >>)),
             fetched |-> answered ]
      ELSE IF fl.attempts <= RetriesAllowed(c)
      THEN [ inflight |-> [fl EXCEPT !.attempts = @ + 1],
             out |-> NotRun,
             fetched |-> Append(answered,
                                FetchRequest(c, fl.method, CallsMade(log))) ]
      ELSE [ inflight |-> [fl EXCEPT !.pc = "done"],
             out |-> Throw(WasenderAPIError(Str(<<"request failed">>),
                             Num(status), Undefined, Undefined, Undefined)),
             fetched |-> answered ]

\* an API call when fetch resolves with `status`: 200 is the result; 429 is
\* sent again while fewer than the allowed retries were made; every other
\* outcome is a WasenderAPIError with the status
apiCallOnResponse(c, fl, log, status) ==
  LET answered == [log EXCEPT ![Len(log)].status = status]
  IN  IF status = 200
      THEN [ inflight |-> [fl EXCEPT !.pc = "done"],
             out |-> Return(Obj(<< <<"success", Bool(TRUE)>> >>)),
             fetched |-> answered ]
      ELSE IF status = 429 /\ fl.attempts <= RetriesAllowed(c)
      THEN [ inflight |-> [fl EXCEPT !.attempts = @ + 1],
             out |-> NotRun,
             fetched |-> Append(answered,
                                FetchRequest(c, fl.method, CallsMade(log))) ]
      ELSE [ inflight |-> [fl EXCEPT !.pc = "done"],
             out |-> Throw(WasenderAPIError(Str(<<"request failed">>),
                             Num(status), Undefined, Undefined, Undefined)),
             fetched |-> answered ]

InitClient ==
  /\ VerifyIdle
  /\ HandlerIdle
  /\ ConcIdle
  /\ ClientIdle
  /\ ErrorIdle

\* a client is created with an API key and, optionally, retry options and a
\* personal token
CreateWasender ==
  /\ client = NoClient
  /\ \E apiKey \in ApiKeys, retryOptions \in RetryConfigs,
        personalAccessToken \in PersonalTokens :
       client' = createWasender(apiKey, retryOptions, personalAccessToken)
  /\ UNCHANGED <<fetched, apiOut, inflight>>
  /\ UNCHANGED <<vvars, hvars, cvars, evars>>

\* the client starts an API call; it runs to its failure or to its fetch
ApiCall ==
  /\ client # NoClient
  /\ inflight.pc # "wait"
  /\ CallsMade(fetched) < MaxApiCalls
  /\ \E method \in AccountScoped \cup SessionScoped :
       LET a == apiCallEnter(client, method, fetched)
       IN  /\ inflight' = a.inflight
           /\ apiOut' = a.out
           /\ fetched' = a.fetched
  /\ UNCHANGED client
  /\ UNCHANGED <<vvars, hvars, cvars, evars>>

\* fetch resolves with a response of the API
FetchResponds ==
  /\ inflight.pc = "wait"
  /\ \E status \in Statuses :
       LET a == apiCallOnResponse(client, inflight, fetched, status)
       IN  /\ inflight' = a.inflight
           /\ apiOut' = a.out
           /\ fetched' = a.fetched
  /\ UNCHANGED client
  /\ UNCHANGED <<vvars, hvars, cvars, evars>>

NextClient == CreateWasender \/ ApiCall \/ FetchResponds

SpecClient == InitClient /\ [][NextClient]_vars

\* the promise of fetch always settles
SpecClientFair == SpecClient /\ WF_vars(FetchResponds)

----------------------------------------------------------------------------
(* SpecError: the constructor of WasenderAPIError applied to every list of *)
(* arguments                                                               *)

\* apiMessage: string
ApiMessages == { Str(<<>>), Text("Unauthorized") }

\* statusCode?: number; Undefined is the argument left out
StatusCodes == { Undefined, Num(0), Num(401), Num(429) }

\* errorDetails?: WasenderErrorDetail
ErrorDetails ==
  { Undefined, Obj(<< <<"to", Arr(<<Text("The to field is required.")>>)>> >>) }

\* retryAfter?: number
RetryAfters == { Undefined, Num(0), Num(30) }

\* rateLimit?: RateLimitInfo
RateLimits ==
  { Undefined, Obj(<< <<"limit", Num(60)>>, <<"remaining", Num(0)>> >>) }

InitError ==
  /\ errArgs \in [ apiMessage : ApiMessages, statusCode : StatusCodes,
                   errorDetails : ErrorDetails, retryAfter : RetryAfters,
                   rateLimit : RateLimits ]
  /\ err = NotRun
  /\ VerifyIdle
  /\ HandlerIdle
  /\ ConcIdle
  /\ ClientIdle

\* new WasenderAPIError(apiMessage, statusCode, errorDetails, retryAfter,
\* rateLimit)
NewWasenderAPIError ==
  /\ err = NotRun
  /\ err' = Return(WasenderAPIError(errArgs.apiMessage, errArgs.statusCode,
                                    errArgs.errorDetails, errArgs.retryAfter,
                                    errArgs.rateLimit))
  /\ UNCHANGED errArgs
  /\ UNCHANGED <<vvars, hvars, cvars, avars>>

NextError == NewWasenderAPIError

SpecError == InitError /\ [][NextError]_vars

----------------------------------------------------------------------------
(* Properties of the verifier (SpecVerify) *)

\* C1: for a header value H and a configured secret S that are both present
\* and non-empty, the verifier returns true if and only if H is exactly S:
\* a different case, a trailing blank, a prefix of S do not verify.
C1_TrueIffExactlyEqual ==
  (vOut # NotRun /\ ~Falsy(vSig) /\ ~Falsy(vSecret)) =>
    /\ vOut.kind = "return"
    /\ vOut.value <=> (vSig.v = vSecret.v)

\* H = "s" is a prefix of S = "s " and equals it once trimmed: rejected
C1_Witness ==
  /\ vSig = Str(<<"s">>)
  /\ vSecret = Str(<<"s", " ">>)
  /\ vOut = Return(FALSE)

\* C2: the verifier fails closed: it returns false whenever the header is
\* undefined, null or empty and whenever the secret is empty or absent,
\* also when both are empty and so equal (webhook.ts and channel.ts).
C2_FailsClosed ==
  (Falsy(vSig) \/ Falsy(vSecret)) =>
    /\ vOut # NotRun => vOut = Return(FALSE)
    /\ vOutCh # NotRun => vOutCh = Return(FALSE)

\* header and secret both the empty string
C2_Witness ==
  /\ vSig = Str(<<>>)
  /\ vSecret = Str(<<>>)
  /\ vOut = Return(FALSE)
  /\ vOutCh = Return(FALSE)

\* C3: for every header value (undefined and null included) and every
\* secret the verifier completes by returning a boolean; it never throws,
\* and a failed verification is the value false.
C3_ReturnsBooleanNeverThrows ==
  /\ vOut = NotRun => ENABLED VerifyCall
  /\ vOut # NotRun => (vOut.kind = "return" /\ vOut.value \in BOOLEAN)

\* the header is null, the secret is set: false is returned
C3_Witness ==
  /\ vSig = Null
  /\ vSecret = Str(<<"s", "S">>)
  /\ vOut = Return(FALSE)

\* C24: the three signature checkers (webhook.ts, its copy in channel.ts,
\* verifySignature of the test server) return the same boolean for every
\* header value and every secret.
C24_CheckersAgree ==
  (vOut # NotRun /\ vOutCh # NotRun /\ vOutSrv # NotRun) =>
    /\ vOut.kind = "return"
    /\ vOut.value \in BOOLEAN
    /\ vOutCh = vOut
    /\ vOutSrv = vOut

\* all three accept the header "sS" for the secret "sS"
C24_Witness ==
  /\ vSig = Str(<<"s", "S">>)
  /\ vSecret = Str(<<"s", "S">>)
  /\ vOut = Return(TRUE)
  /\ vOutCh = Return(TRUE)
  /\ vOutSrv = Return(TRUE)

----------------------------------------------------------------------------
(* Properties of handleWebhook and of the test server (Spec) *)

\* the value of the signature header of a request, Undefined when missing
SignatureOf(r) == GetProp(r.headers, WEBHOOK_SIGNATURE_HEADER)

\* a call of handleWebhook is in flight or settled
InHandler == pc \in {"hw_await", "hw_done"}

\* the signature header is missing or differs from the secret
HwBadSignature ==
  SignatureOf(req) = Undefined \/ SignatureOf(req) # SECRET

Occurs(t, e) == \E i \in DOMAIN t : t[i] = e

Before(t, a, b) == \E i, j \in DOMAIN t : i < j /\ t[i] = a /\ t[j] = b

\* the discriminant of an event, under whichever field carries it
Discriminant(e) == OrElse(GetProp(e, "type"), GetProp(e, "event"))

\* C4: handleWebhook rejects every request whose signature header is
\* missing or differs from the secret: the call fails with 'Invalid
\* signature' and returns no event, whatever the body contains.
C4_BadSignatureRejected ==
  (InHandler /\ HwBadSignature) =>
    /\ pc = "hw_done"
    /\ hwOut = Throw(Error(Str(<<"Invalid signature">>)))

\* a well-formed event signed with the secret in another case is rejected
C4_Witness ==
  /\ pc = "hw_done"
  /\ SignatureOf(req) = Str(<<"S", "h", "h", "!">>)
  /\ req.body \in KnownEvents
  /\ hwOut = Throw(Error(Str(<<"Invalid signature">>)))

\* C5: handleWebhook reads and decodes the body only after the signature
\* verified: when the signature is missing or wrong req.json() is never
\* called, and when it is called the verification came first.
C5_BodyReadOnlyAfterVerification ==
  InHandler =>
    /\ HwBadSignature => ~Occurs(trace, "json")
    /\ Occurs(trace, "json") =>
         (Before(trace, "verify", "json") /\ ~HwBadSignature)

\* a request without signature header: header read, verified, no body read
C5_Witness ==
  /\ pc = "hw_done"
  /\ SignatureOf(req) = Undefined
  /\ trace = <<"header", "verify">>
  /\ hwOut.kind = "throw"

SrvGoodSignature == ~Falsy(envSecret) /\ SignatureOf(req) = envSecret

\* the body is a messages.upsert event, its discriminant under field dk and
\* its message payload directly under data
IsDirectUpsert(b, dk) ==
  /\ GetProp(b, dk) = MessagesUpsert
  /\ GetProp(b, "data") \in KnownData(MessagesUpsert)

\* d carries the key id and the conversation text of payload p
CarriesMessage(d, p) ==
  /\ ~Nullish(d)
  /\ OptGet(GetProp(d, "key"), "id") = GetProp(GetProp(p, "key"), "id")
  /\ OptGet(GetProp(d, "message"), "conversation")
       = GetProp(GetProp(p, "message"), "conversation")

\* C7: a correctly signed messages.upsert body with the message directly
\* under data is decoded to an event with discriminant messages.upsert
\* whose data still carries key.id and message.conversation (as the data
\* itself or, where the decoder lists entries, as an entry): the payload is
\* not lost or replaced by an empty one. Stated of handleWebhook and of the
\* test server, which reads the discriminant from the field `event`.
C7_UpsertPayloadKept ==
  /\ (/\ pc = "hw_done" /\ ~HwBadSignature
      /\ \E dk \in DiscriminantKeys : IsDirectUpsert(req.body, dk)) =>
       /\ hwOut.kind = "return"
       /\ Discriminant(hwOut.value) = MessagesUpsert
       /\ CarriesMessage(GetProp(hwOut.value, "data"),
                         GetProp(req.body, "data"))
  /\ (/\ pc = "srv_done" /\ SrvGoodSignature
      /\ IsDirectUpsert(req.body, "event")) =>
       /\ norm.kind = "return"
       /\ norm.value.type = MessagesUpsert
       /\ \/ CarriesMessage(norm.value.data, GetProp(req.body, "data"))
          \/ \E i \in DOMAIN norm.value.data.v :
               CarriesMessage(norm.value.data.v[i], GetProp(req.body, "data"))

\* the body is a session.status event with its payload object under data
IsSessionStatus(b, dk) ==
  /\ GetProp(b, dk) = SessionStatus
  /\ GetProp(b, "data") \in KnownData(SessionStatus)

\* C8: for a correctly signed session.status event the decoded data is the
\* payload object itself, never an array around it. Stated of handleWebhook
\* and of the test server.
C8_SessionStatusNotWrapped ==
  /\ (/\ pc = "hw_done" /\ ~HwBadSignature
      /\ \E dk \in DiscriminantKeys : IsSessionStatus(req.body, dk)) =>
       /\ hwOut.kind = "return"
       /\ GetProp(hwOut.value, "data") = GetProp(req.body, "data")
  /\ (/\ pc = "srv_done" /\ SrvGoodSignature
      /\ IsSessionStatus(req.body, "event")) =>
       /\ norm.kind = "return"
       /\ ~IsArray(norm.value.data)
       /\ norm.value.data = GetProp(req.body, "data")

\* the body is a chats.delete event whose data is an array of chat ids
IsChatsDelete(b, dk) ==
  /\ GetProp(b, dk) = ChatsDelete
  /\ GetProp(b, "data") \in KnownData(ChatsDelete)

IsEmptyArrayEvent(b, dk) ==
  /\ GetProp(b, dk) \in ArrayKinds
  /\ GetProp(b, "data") = Arr(<<>>)

IsUnrecognized(b, dk) ==
  /\ GetProp(b, dk).t = "string"
  /\ ~Falsy(GetProp(b, dk))
  /\ GetProp(b, dk) \notin WasenderWebhookEventType

\* C11: a correctly signed body whose discriminant is a string outside the
\* 16 kinds is decoded without an error, and the decoded event carries
\* exactly that string as its discriminant, whatever the data is;
\* the test server acknowledges it with status 200 and reports that string
\* as the processed event type.
C11_UnrecognizedKindKept ==
  /\ (/\ pc = "hw_done" /\ ~HwBadSignature
      /\ \E dk \in DiscriminantKeys : IsUnrecognized(req.body, dk)) =>
       /\ hwOut.kind = "return"
       /\ Discriminant(hwOut.value) = Discriminant(req.body)
  /\ (/\ pc = "srv_done" /\ SrvGoodSignature
      /\ IsUnrecognized(req.body, "event")) =>
       /\ norm.kind = "return"
       /\ norm.value.type = GetProp(req.body, "event")
       /\ res.status = 200
       /\ GetProp(res.json, "processedEventType") = GetProp(req.body, "event")

\* the body has none of the discriminant fields
LacksDiscriminant(b) == \A dk \in DiscriminantKeys : ~HasKey(b, dk)

\* C12: a correctly signed JSON body without discriminant field is never
\* decoded to an event labelled with one of the 16 kinds: the decoder fails
\* or returns an event of an unrecognized kind.
C12_NoDiscriminantNoKnownKind ==
  /\ (pc = "hw_done" /\ ~HwBadSignature /\ LacksDiscriminant(req.body)) =>
       \/ hwOut.kind = "throw"
       \/ Discriminant(hwOut.value) \notin WasenderWebhookEventType
  /\ (pc = "srv_done" /\ SrvGoodSignature /\ LacksDiscriminant(req.body)) =>
       \/ norm.kind = "throw"
       \/ norm.value.type \notin WasenderWebhookEventType

\* the shape the event types declare for the data of a known kind
ShapeOfKind(kind) == IF kind \in ArrayKinds THEN "array" ELSE "object"

\* the shape of a data value
ShapeOf(d) == IF IsArray(d) THEN "array"
              ELSE IF d.t = "object" THEN "object"
              ELSE "other"

\* C13: the data of every decoded event of a known kind has the one shape
\* declared for that kind (an array for the array-shaped kinds, a single
\* object for the others), whatever the shape of the data received (for
\* handleWebhook: whenever the body carries an array or an object as data).
C13_ShapeFixedByKind ==
  /\ (/\ pc = "hw_done" /\ hwOut.kind = "return"
      /\ Discriminant(hwOut.value) \in WasenderWebhookEventType
      /\ ShapeOf(GetProp(req.body, "data")) # "other") =>
       ShapeOf(GetProp(hwOut.value, "data"))
         = ShapeOfKind(Discriminant(hwOut.value))
  /\ (/\ pc = "srv_done" /\ norm.kind = "return"
      /\ norm.value.type \in WasenderWebhookEventType) =>
       ShapeOf(norm.value.data) = ShapeOfKind(norm.value.type)

\* C14: the decoded event carries the timestamp and the session id of the
\* body unchanged and unvalidated, on the standard path and on the fallback
\* path of the test server as in handleWebhook: a present value is the same
\* value (whatever its type), an absent one stays absent (undefined).
C14_OptionalFieldsVerbatim ==
  /\ (pc = "hw_done" /\ hwOut.kind = "return") =>
       \A k \in {"timestamp", "sessionId"} :
         /\ HasKey(hwOut.value, k) <=> HasKey(req.body, k)
         /\ GetProp(hwOut.value, k) = GetProp(req.body, k)
  /\ (pc = "srv_done" /\ norm.kind = "return") =>
       /\ norm.value.timestamp = OptGet(req.body, "timestamp")
       /\ norm.value.sessionId = OptGet(req.body, "sessionId")

\* fallback path of the test server: the kind is inferred from `status`,
\* the session id and a timestamp that is no number are copied as they are
C14_Witness ==
  /\ pc = "srv_done"
  /\ norm.kind = "return"
  /\ LacksDiscriminant(req.body)
  /\ norm.value.type = SessionStatus
  /\ norm.value.sessionId = Text("session-id-123")
  /\ norm.value.timestamp = Text("soon")

\* a call of handleWebhookEvent is in flight or settled
InEvent == pc \in {"ev_await", "ev_done"}

\* the call in flight failed with the WasenderAPIError e
FailedWith(e) == hwOut.kind = "throw" /\ hwOut.error = e

\* C15: without a configured webhook secret, webhook handling fails with
\* the 'webhook not configured' error before anything is read: the trace
\* of the call holds no read of the header or of the body. The test server
\* whose secret is unset never listens, so it reads no request at all.
C15_NotConfiguredBeforeAnyRead ==
  /\ (InEvent /\ Falsy(webhookSecret)) =>
       /\ pc = "ev_done"
       /\ FailedWith(WebhookNotConfigured)
       /\ trace = <<>>
  /\ Falsy(envSecret) =>
       /\ srv \in {"boot", "exited"}
       /\ pc # "srv_done"
       /\ norm = NotRun
       /\ res = NoRes

\* the server exited at startup, and a correctly signed, well-formed request
\* to an instance without secret failed unread
C15_Witness ==
  /\ srv = "exited"
  /\ pc = "ev_done"
  /\ webhookSecret = Undefined
  /\ SignatureOf(req) = SECRET
  /\ req.body \in {JSONStringify(b) : b \in KnownEventsOf(SessionStatus)}
  /\ FailedWith(WebhookNotConfigured)
  /\ trace = <<>>

\* the signature of the request verifies against the configured secret of
\* the Wasender instance
EvGoodSignature == ~Falsy(webhookSecret) /\ SignatureOf(req) = webhookSecret

\* C16: the test server answers a request with status 401 exactly when its
\* signature is missing or differs from the secret; handleWebhookEvent of
\* an instance with a secret fails with an error of status code 401 exactly
\* when the signature is missing or differs. A matching signature never
\* leads to 401.
C16_Unauthorized401 ==
  /\ pc = "srv_done" => (res.status = 401 <=> ~SrvGoodSignature)
  /\ (pc = "ev_done" /\ ~Falsy(webhookSecret)) =>
       (/\ hwOut.kind = "throw"
        /\ hwOut.error.statusCode = Num(401)) <=> ~EvGoodSignature

\* the server answered 401 to a signature that differs from the secret in
\* the case of one letter
C16_Witness ==
  /\ pc = "srv_done"
  /\ envSecret = SECRET
  /\ SignatureOf(req) = Str(<<"S", "h", "h", "!">>)
  /\ res.status = 401
  /\ norm = NotRun

\* C17: every failure of webhook handling is a WasenderAPIError: the promise
\* of the handler never rejects with an error of another type.
C17_UniformErrorShape ==
  (pc \in {"hw_done", "ev_done"} /\ hwOut.kind = "throw") =>
    hwOut.error.name = "WasenderAPIError"

\* number of occurrences of effect e in trace t
Count(t, e) == Cardinality({i \in DOMAIN t : t[i] = e})

\* C18: a call of the handler reads the signature header at most once and
\* the body at most once, and does nothing else: its effects are the read
\* of the header, the verification and the read of the body, no log write,
\* no response, no retry; the server's state is as it was.
C18_OnlyTwoReads ==
  (InHandler \/ InEvent) =>
    /\ \A i \in DOMAIN trace : trace[i] \in {"header", "verify", "json", "body"}
    /\ Count(trace, "header") <= 1
    /\ Count(trace, "json") + Count(trace, "body") <= 1
    /\ norm = NotRun
    /\ res = NoRes

\* handleWebhook returned an event after one read of the header and one of
\* the body
C18_Witness ==
  /\ pc = "hw_done"
  /\ hwOut.kind = "return"
  /\ trace = <<"header", "verify", "json">>

----------------------------------------------------------------------------
(* Properties of concurrent calls (SpecConc) *)

\* the settlement of handleWebhook(r) when no other call runs
RunAlone(r) ==
  LET h == handleWebhookEnter(r)
  IN  IF h.pc = "hw_done" THEN h.out ELSE handleWebhookSettle(r)

\* C19: handleWebhook is reentrant: however the steps of concurrent calls
\* interleave at the await on req.json(), every call settles with the
\* outcome it has when it runs alone on its own request: the event of its
\* own body, or the rejection of its own signature.
C19_Reentrant ==
  \A i \in DOMAIN calls :
    calls[i].pc = "hw_done" => calls[i].out = RunAlone(calls[i].req)

\* call 2 started and settled while call 1 was suspended; each returned the
\* event of its own body
C19_Witness ==
  /\ sched = << <<"call", 1>>, <<"call", 2>>, <<"settle", 2>>,
                <<"settle", 1>> >>
  /\ calls[1].req.body # calls[2].req.body
  /\ calls[1].out = Return(calls[1].req.body)
  /\ calls[2].out = Return(calls[2].req.body)

----------------------------------------------------------------------------
(* Properties of the REST client (SpecClient) *)

\* C20: a client created with an API key and a personal token sends, on
\* every call, 'Bearer <personal token>' to the account-scoped endpoints
\* (getAllWhatsAppSessions, createWhatsAppSession) and 'Bearer <API key>'
\* to the session-scoped ones (getSessionStatus, send-message).
C20_TokenByScope ==
  (~Falsy(client.apiKey) /\ ~Falsy(client.personalAccessToken)) =>
    \A i \in DOMAIN fetched :
      GetProp(fetched[i].headers, "Authorization")
        = Str(<<"Bearer ">>
              \o (IF fetched[i].method \in AccountScoped
                  THEN client.personalAccessToken.v
                  ELSE client.apiKey.v))

\* one client listed the sessions with the personal token and then sent a
\* message with the API key
C20_Witness ==
  /\ client.apiKey = Str(<<"apiKey123">>)
  /\ client.personalAccessToken = Str(<<"personalToken123">>)
  /\ Len(fetched) = 2
  /\ fetched[1].method = "getAllWhatsAppSessions"
  /\ GetProp(fetched[1].headers, "Authorization")
       = Str(<<"Bearer ", "personalToken123">>)
  /\ fetched[2].method = "sendText"
  /\ GetProp(fetched[2].headers, "Authorization")
       = Str(<<"Bearer ", "apiKey123">>)

RequestsOf(k) == {i \in DOMAIN fetched : fetched[i].call = k}

\* the call in flight or last made has settled with a result or with a
\* WasenderAPIError
Settled ==
  /\ inflight.pc = "done"
  /\ \/ apiOut.kind = "return"
     \/ apiOut.kind = "throw" /\ apiOut.error.name = "WasenderAPIError"

\* the bounds of a retried call: a request is sent again only when the
\* response to the one before had status 429, a call sends at most
\* maxRetries + 1 requests (one when retries are not enabled), and a call
\* that is over has a result or a WasenderAPIError
RetryBounded ==
  /\ \A i \in DOMAIN fetched :
       (i > 1 /\ fetched[i].call = fetched[i - 1].call) =>
         fetched[i - 1].status = 429
  /\ \A k \in 1..CallsMade(fetched) :
       Cardinality(RequestsOf(k))
         <= 1 + (IF client.retryOptions.enabled
                 THEN client.retryOptions.maxRetries ELSE 0)
  /\ inflight.pc = "done" => Settled
  /\ inflight.pc = "wait" =>
       /\ fetched # <<>>
       /\ fetched[Len(fetched)].status = 0
       /\ inflight.attempts = Cardinality(RequestsOf(CallsMade(fetched)))

\* C22: with retries enabled and maxRetries = N a call is sent again only
\* after a response with status 429 and at most N times: at most N + 1
\* requests per call; a failure with another status is not retried; and
\* every call that reached fetch settles, with a result or with a
\* WasenderAPIError.
C22_BoundedRetryOn429 ==
  /\ []RetryBounded
  /\ (inflight.pc = "wait") ~> Settled

\* maxRetries = 2: three requests, each answered 429; the call failed with
\* a WasenderAPIError of status 429
C22_Witness ==
  /\ client.retryOptions = [enabled |-> TRUE, maxRetries |-> 2]
  /\ inflight.pc = "done"
  /\ inflight.attempts = 3
  /\ Len(fetched) = 3
  /\ \A i \in DOMAIN fetched : fetched[i].call = 1 /\ fetched[i].status = 429
  /\ apiOut.kind = "throw"
  /\ apiOut.error.name = "WasenderAPIError"
  /\ apiOut.error.statusCode = Num(429)

\* C23: when retries are not enabled or maxRetries is 0, every call that
\* reaches fetch issues exactly one request, whatever the status of the
\* response; a successful sendText is one fetch, of
\* https://www.wasenderapi.com/api/send-message.
C23_OneRequestWithoutRetries ==
  (~client.retryOptions.enabled \/ client.retryOptions.maxRetries = 0) =>
    /\ \A k \in 1..CallsMade(fetched) : Cardinality(RequestsOf(k)) = 1
    /\ inflight.pc = "wait" => inflight.attempts = 1
    /\ (/\ inflight.pc = "done" /\ inflight.method = "sendText"
        /\ apiOut.kind = "return") =>
         /\ inflight.attempts = 1
         /\ fetched[Len(fetched)].status = 200
         /\ fetched[Len(fetched)].url
              = Str(<<"https://www.wasenderapi.com/api", "/send-message">>)

\* retries are not enabled though maxRetries is 2: the call answered 429
\* was sent once and failed
C23_Witness ==
  /\ client.retryOptions = [enabled |-> FALSE, maxRetries |-> 2]
  /\ inflight.pc = "done"
  /\ inflight.attempts = 1
  /\ Len(fetched) = 1
  /\ fetched[1].status = 429
  /\ apiOut.kind = "throw"

\* C25: in the test server every POST /webhook whose signature verifies
\* receives exactly one response, of status 200, whatever the parsed body:
\* unknown kinds, the empty object, bodies without event or data, data that
\* is no object, entry lists that contain null; the route does not throw
\* while it normalises or dispatches.
C25_VerifiedAlways200 ==
  (pc = "srv_done" /\ SrvGoodSignature) =>
    /\ Count(trace, "respond") = 1
    /\ res.status = 200

\* C26: a request to the test server whose signature is missing or wrong is
\* answered once, with 401, and is neither normalised nor dispatched;
\* normalisation and dispatch happen only after the verification, and only
\* when it returned true.
C26_NoProcessingBeforeVerify ==
  pc = "srv_done" =>
    /\ ~SrvGoodSignature =>
         /\ res.status = 401
         /\ Count(trace, "respond") = 1
         /\ norm = NotRun
         /\ ~Occurs(trace, "normalise")
         /\ ~Occurs(trace, "dispatch")
    /\ \A i \in DOMAIN trace :
         trace[i] \in {"normalise", "dispatch"} =>
           /\ SrvGoodSignature
           /\ \E j \in 1..(i - 1) : trace[j] = "verify"

\* a known event sent without the signature header: 401, the body written
\* to the log, nothing normalised
C26_Witness ==
  /\ pc = "srv_done"
  /\ envSecret = SECRET
  /\ SignatureOf(req) = Undefined
  /\ GetProp(req.body, "event") = ChatsDelete
  /\ res = Response(401, Obj(<< <<"error", Text("Invalid signature")>> >>))
  /\ trace = <<"log", "verify", "respond">>
  /\ norm = NotRun

\* C27: the test server writes the body of every POST /webhook to the log
\* before it checks the signature: the write (or its failure) is the first
\* effect of every request, the rejected ones included; whether the write
\* failed does not change the response.
C27_LoggedBeforeVerify ==
  pc = "srv_done" =>
    /\ trace[1] \in {"log", "logfail"}
    /\ Count(trace, "log") + Count(trace, "logfail") = 1
    /\ Before(trace, trace[1], "verify")
    /\ Before(trace, "verify", "respond")
    /\ res = postWebhook(req, envSecret, TRUE).res
    /\ res = postWebhook(req, envSecret, FALSE).res

\* the write failed for a request with a wrong signature: 401 all the same
C27_Witness ==
  /\ pc = "srv_done"
  /\ envSecret = SECRET
  /\ SignatureOf(req) = Str(<<"k">>)
  /\ trace = <<"logfail", "verify", "respond">>
  /\ res.status = 401

\* the payload normalisePayload hands to toArray: dataToProcess of the
\* standard structure, dataFromFallback of the fallback, none for a body
\* without keys
PayloadOf(raw) ==
  LET eventType == OptGet(raw, "event")
      rawEventSpecificData == OptGet(raw, "data")
  IN  IF /\ ~Falsy(eventType)
         /\ TypeofObject(rawEventSpecificData)
         /\ rawEventSpecificData # Null
      THEN DataToProcess(eventType, rawEventSpecificData)
      ELSE IF Len(ObjectKeys(raw)) = 0 THEN Undefined
      ELSE FallbackInference(raw).data

\* C28: normalisePayload returns data as an array on every path: an absent
\* or null payload becomes the empty array, an array payload is returned
\* with the same elements in the same order, any other payload v becomes
\* [v]; toArray applied to the result returns it unchanged.
C28_DataAlwaysArray ==
  (pc = "srv_done" /\ norm # NotRun) =>
    LET payload == PayloadOf(req.body)
        data == norm.value.data
    IN  /\ norm.kind = "return"
        /\ IsArray(data)
        /\ Nullish(payload) => data = Arr(<<>>)
        /\ IsArray(payload) => data = payload
        /\ (~Nullish(payload) /\ ~IsArray(payload)) => data = Arr(<<payload>>)
        /\ toArray(data) = data

\* contacts.upsert whose data.contacts is null: the entries are the empty
\* array and the request is answered 200
C28_Witness ==
  /\ pc = "srv_done"
  /\ norm # NotRun
  /\ GetProp(req.body, "event") = ContactsUpsert
  /\ OptGet(GetProp(req.body, "data"), "contacts") = Null
  /\ norm.value.data = Arr(<<>>)
  /\ res.status = 200

\* C29: a constructed WasenderAPIError carries its constructor arguments
\* unchanged (apiMessage, statusCode, errorDetails, retryAfter, rateLimit),
\* has success = false and name = "WasenderAPIError", and its message is
\* "Wasender API Error (Status s): <apiMessage>" where s is the status code
\* when one was given and "N/A" only when none was given; the fields stay
\* as constructed.
C29_ErrorCarriesArguments ==
  err # NotRun =>
    LET e == err.value
        s == IF errArgs.statusCode = Undefined THEN "N/A"
             ELSE ToString(errArgs.statusCode.v)
    IN  /\ err.kind = "return"
        /\ e.apiMessage = errArgs.apiMessage
        /\ e.statusCode = errArgs.statusCode
        /\ e.errorDetails = errArgs.errorDetails
        /\ e.retryAfter = errArgs.retryAfter
        /\ e.rateLimit = errArgs.rateLimit
        /\ e.success = FALSE
        /\ e.name = "WasenderAPIError"
        /\ e.message = Str(<<"Wasender API Error (Status ", s, "): ">>
                           \o errArgs.apiMessage.v)

====
